---- MODULE Spec2Model ----
(***************************************************************************)
(* A model of the configuration module (class Config) and of the message  *)
(* table loader (class i18n) of i18n-ally.                                 *)
(*                                                                         *)
(* The workspace configuration is two key/value stores, one per           *)
(* namespace: cur (EXT_NAMESPACE) and leg (EXT_LEGACY_NAMESPACE).  A       *)
(* JavaScript value is a record [kind, val]; kind is the value's type.     *)
(* WorkspaceConfiguration.update is asynchronous: a setConfig call that    *)
(* has been made but whose writes have not landed yet is an element of     *)
(* pending.                                                                *)
(***************************************************************************)
EXTENDS Integers, Sequences, FiniteSets, TLC

VARIABLES
  cur,              \* workspace.getConfiguration(EXT_NAMESPACE): key -> value
  leg,              \* workspace.getConfiguration(EXT_LEGACY_NAMESPACE): key -> value
  pending,          \* setConfig calls in flight, each [key, value, pc]
  last,             \* the last operation that returned or completed
  hist,             \* the read-modify-write calls made since the store was quiescent
  jobs,             \* translation batch: job -> status
  gitName,          \* what 'git config user.name' does now
  gitEmail,         \* what 'git config user.email' does now
  reviewUserNameCache,   \* Config._reviewUserName
  reviewUserEmailCache,  \* Config._reviewUserEmail
  gitRuns,          \* how many times each git command has run
  envLanguage,      \* vscode env.language
  files,            \* the files under extensionPath: name -> content
  messages          \* i18n.messages

cfgVars == <<cur, leg, pending>>
trVars == <<jobs>>
rvVars == <<gitName, gitEmail, reviewUserNameCache, reviewUserEmailCache, gitRuns>>
i18nVars == <<envLanguage, files, messages>>
vars == <<cur, leg, pending, last, hist, jobs, gitName, gitEmail, reviewUserNameCache,
          reviewUserEmailCache, gitRuns, envLanguage, files, messages>>

(***************************************************************************)
(* JavaScript values                                                       *)
(***************************************************************************)
Undefined == [kind |-> "undefined", val |-> "undefined"]
Bool(b) == [kind |-> "boolean", val |-> b]
Num(n) == [kind |-> "number", val |-> n]
Str(s) == [kind |-> "string", val |-> s]
Arr(a) == [kind |-> "array", val |-> a]

\* v === undefined
IsUndefined(v) == v.kind = "undefined"

\* ToBoolean(v): what `if (v)`, `!v` and `v || d` test
Truthy(v) ==
  CASE v.kind = "undefined" -> FALSE
    [] v.kind = "boolean" -> v.val
    [] v.kind = "number" -> v.val # 0
    [] v.kind = "string" -> Len(v.val) > 0
    [] v.kind = "array" -> TRUE

\* a ?? d
Nullish(a, d) == IF IsUndefined(a) THEN d ELSE a

\* a || d
OrElse(a, d) == IF Truthy(a) THEN a ELSE d

(***************************************************************************)
(* Bounds                                                                  *)
(***************************************************************************)
MaxPending == 2
MaxCalls == 3
MaxArgLen == 2
MaxJobs == 6
MaxGitRuns == 3

(***************************************************************************)
(* Values of the variables a specification does not use                    *)
(***************************************************************************)
NoOp == [op |-> "none", key |-> "", val |-> Undefined]
idleCfg == cur = <<>> /\ leg = <<>> /\ pending = <<>>
idleHist == hist = <<>>
idleTr == jobs = <<>>
idleRv ==
  /\ gitName = <<>> /\ gitEmail = <<>>
  /\ reviewUserNameCache = Undefined /\ reviewUserEmailCache = Undefined
  /\ gitRuns = <<>>
idleI18n == envLanguage = <<>> /\ files = <<>> /\ messages = <<>>

(***************************************************************************)
(* Config.getConfig and Config.setConfig                                   *)
(***************************************************************************)
\* getConfig consulting the legacy namespace on any falsy current value
getConfigFalsy(key) ==
  IF ~Truthy(cur[key]) THEN leg[key] ELSE cur[key]

getConfig(key) ==
  LET config == cur[key]
  IN IF IsUndefined(config) THEN leg[key] ELSE config

\* The synchronous part of setConfig: it tests the legacy value and issues
\* the first update; the call then waits for that update.  isGlobal only
\* selects the settings file written; both namespaces are modelled as the
\* values getConfiguration(...).get returns.
setConfigCall(key, value) ==
  [key |-> key, value |-> value,
   pc |-> IF Truthy(leg[key]) THEN "legacy" ELSE "update"]

RemoveAt(s, i) == SubSeq(s, 1, i - 1) \o SubSeq(s, i + 1, Len(s))

\* The legacy update of call i lands: the legacy value is removed and the
\* call goes on to issue the update of the current namespace.
LegacyUpdateLands(i) ==
  /\ i \in 1..Len(pending)
  /\ pending[i].pc = "legacy"
  /\ leg' = [leg EXCEPT ![pending[i].key] = Undefined]
  /\ pending' = [pending EXCEPT ![i].pc = "update"]
  /\ last' = [op |-> "transfer", key |-> pending[i].key, val |-> Undefined]
  /\ UNCHANGED <<cur, hist, trVars, rvVars, i18nVars>>

\* The update of the current namespace of call i lands: the call completes.
UpdateLands(i) ==
  /\ i \in 1..Len(pending)
  /\ pending[i].pc = "update"
  /\ cur' = [cur EXCEPT ![pending[i].key] = pending[i].value]
  /\ pending' = RemoveAt(pending, i)
  /\ last' = [op |-> "set", key |-> pending[i].key, val |-> pending[i].value]
  /\ UNCHANGED <<leg, hist, trVars, rvVars, i18nVars>>

(***************************************************************************)
(* SpecConfig: reads and writes of plain configuration keys                *)
(***************************************************************************)
Keys == {"disabled", "sourceLanguage"}
Values == {Undefined, Bool(FALSE), Num(0), Str(""), Str("en")}
WrittenValues == {Undefined, Bool(FALSE), Str("en")}

InitConfig ==
  /\ cur \in [Keys -> Values]
  /\ leg \in [Keys -> Values]
  /\ pending = <<>>
  /\ last = NoOp
  /\ idleHist /\ idleTr /\ idleRv /\ idleI18n

GetConfig(key) ==
  /\ last' = [op |-> "get", key |-> key, val |-> getConfig(key)]
  /\ UNCHANGED <<cfgVars, hist, trVars, rvVars, i18nVars>>

SetConfig(key, value) ==
  /\ Len(pending) < MaxPending
  /\ pending' = Append(pending, setConfigCall(key, value))
  /\ UNCHANGED <<cur, leg, last, hist, trVars, rvVars, i18nVars>>

NextConfig ==
  \/ \E key \in Keys : GetConfig(key)
  \/ \E key \in Keys, value \in WrittenValues : SetConfig(key, value)
  \/ \E i \in 1..MaxPending : LegacyUpdateLands(i)
  \/ \E i \in 1..MaxPending : UpdateLands(i)

SpecConfig == InitConfig /\ [][NextConfig]_vars

\* C1: getConfig returns the current namespace's value whenever it is
\* defined, falsy values included, and the legacy namespace's value exactly
\* when the current namespace has none; a defined current value is never
\* shadowed by the legacy one.
C1_GetConfigFallback ==
  last.op = "get" =>
    /\ cur[last.key] # Undefined => last.val = cur[last.key]
    /\ cur[last.key] = Undefined => last.val = leg[last.key]
    /\ \A v \in {Bool(FALSE), Num(0), Str("")} :
         cur[last.key] = v => last.val = v

\* A read of a key whose current value is falsy but defined while the
\* legacy namespace holds another value.
C1_Witness ==
  /\ last.op = "get"
  /\ cur[last.key] \in {Bool(FALSE), Num(0), Str("")}
  /\ leg[last.key] = Str("en")
  /\ last.val = cur[last.key]

\* C2: once setConfig(key, value) has completed, the legacy namespace holds
\* no value for key and the current namespace holds the written value.
C2_WriteMigratesLegacy ==
  last.op = "set" =>
    /\ leg[last.key] = Undefined
    /\ cur[last.key] = last.val

(***************************************************************************)
(* SpecKeyStyle: Config._keyStyle and Config.disablePathParsing            *)
(***************************************************************************)
disablePathParsing == Nullish(getConfig("disablePathParsing"), Bool(FALSE))

\* get _keyStyle without the disablePathParsing test
keyStyleIgnoresParsing ==
  OrElse(getConfig("keystyle"), Str("auto"))

keyStyle ==
  LET style == OrElse(getConfig("keystyle"), Str("auto"))
  IN IF style = Str("auto") /\ Truthy(disablePathParsing)
       THEN Str("flat")
       ELSE style

KeyStyles == {Undefined, Str("auto"), Str("nested"), Str("flat")}
Flags == {Undefined, Bool(FALSE), Bool(TRUE)}

InitKeyStyle ==
  /\ \E ck \in KeyStyles, cd \in Flags :
       cur = [keystyle |-> ck, disablePathParsing |-> cd]
  /\ \E lk \in KeyStyles, ld \in Flags :
       leg = [keystyle |-> lk, disablePathParsing |-> ld]
  /\ pending = <<>>
  /\ last = NoOp
  /\ idleHist /\ idleTr /\ idleRv /\ idleI18n

\* get _keyStyle
GetKeyStyle ==
  /\ last' = [op |-> "keyStyle", key |-> "keystyle", val |-> keyStyle]
  /\ UNCHANGED <<cfgVars, hist, trVars, rvVars, i18nVars>>

\* set _keyStyle(value)
SetKeyStyle(value) ==
  /\ Len(pending) < MaxPending
  /\ pending' = Append(pending, setConfigCall("keystyle", value))
  /\ last' = [op |-> "call", key |-> "keystyle", val |-> value]
  /\ UNCHANGED <<cur, leg, hist, trVars, rvVars, i18nVars>>

NextKeyStyle ==
  \/ GetKeyStyle
  \/ \E value \in KeyStyles \ {Undefined} : SetKeyStyle(value)
  \/ \E i \in 1..MaxPending : LegacyUpdateLands(i)
  \/ \E i \in 1..MaxPending : UpdateLands(i)

SpecKeyStyle == InitKeyStyle /\ [][NextKeyStyle]_vars

\* The configured keystyle and whether disablePathParsing is set, as the
\* two namespaces give them.
ConfiguredKeyStyle ==
  IF cur.keystyle # Undefined THEN cur.keystyle ELSE leg.keystyle
PathParsingDisabled ==
  \/ cur.disablePathParsing = Bool(TRUE)
  \/ cur.disablePathParsing = Undefined /\ leg.disablePathParsing = Bool(TRUE)

\* C3: the effective key style is 'flat' whenever the configured keystyle is
\* 'auto' or unset and disablePathParsing is set; otherwise it is the
\* configured keystyle: 'nested' and 'flat' unchanged, 'auto' when
\* disablePathParsing is not set.
C3_EffectiveKeyStyle ==
  last.op = "keyStyle" =>
    /\ ConfiguredKeyStyle \in {Undefined, Str("auto")} /\ PathParsingDisabled
         => last.val = Str("flat")
    /\ ConfiguredKeyStyle \in {Undefined, Str("auto")} /\ ~PathParsingDisabled
         => last.val = Str("auto")
    /\ ConfiguredKeyStyle = Str("nested") => last.val = Str("nested")
    /\ ConfiguredKeyStyle = Str("flat") => last.val = Str("flat")

\* 'auto' read as 'flat' because disablePathParsing is set.
C3_Witness ==
  /\ last.op = "keyStyle"
  /\ ConfiguredKeyStyle = Str("auto")
  /\ PathParsingDisabled
  /\ last.val = Str("flat")

(***************************************************************************)
(* Strings as sequences of characters, where the code works on characters  *)
(***************************************************************************)
RECURSIVE trimEnd(_, _)
\* lodash trimEnd(s, chars)
trimEnd(s, chars) ==
  IF Len(s) > 0 /\ s[Len(s)] \in chars
    THEN trimEnd(SubSeq(s, 1, Len(s) - 1), chars)
    ELSE s

\* s.replace(/\\/g, '/')
replaceBackslashes(s) == [i \in 1..Len(s) |-> IF s[i] = "\\" THEN "/" ELSE s[i]]

RECURSIVE split(_, _)
\* s.split(sep), sep one character
split(s, sep) ==
  IF \E i \in 1..Len(s) : s[i] = sep
    THEN LET i == CHOOSE k \in 1..Len(s) :
                    s[k] = sep /\ \A m \in 1..k - 1 : s[m] # sep
         IN <<SubSeq(s, 1, i - 1)>> \o split(SubSeq(s, i + 1, Len(s)), sep)
    ELSE <<s>>

RECURSIVE uniq(_)
\* lodash uniq(a): the first occurrence of each element, in order
uniq(a) ==
  IF a = <<>> THEN <<>>
  ELSE LET init == uniq(SubSeq(a, 1, Len(a) - 1))
           x == a[Len(a)]
       IN IF \E i \in 1..Len(init) : init[i] = x THEN init ELSE Append(init, x)

\* a.includes(x)
includes(a, x) == \E i \in 1..Len(a) : a[i] = x

\* a.filter(i => i !== x)
RECURSIVE without(_, _)
without(a, x) ==
  IF a = <<>> THEN <<>>
  ELSE IF a[1] = x THEN without(Tail(a), x)
       ELSE <<a[1]>> \o without(Tail(a), x)

(***************************************************************************)
(* Config._localesPaths, Config.updateLocalesPaths,                        *)
(* Config.ignoredLocales, Config.toggleLocaleVisibility                    *)
(***************************************************************************)
normalizePath(i) == replaceBackslashes(trimEnd(i, {"/", "\\"}))

\* get _localesPaths
localesPaths ==
  LET paths == getConfig("localesPaths")
  IN IF ~Truthy(paths) THEN Undefined
     ELSE LET list == IF paths.kind = "string" THEN split(paths.val, ",")
                      ELSE paths.val
          IN Arr([i \in 1..Len(list) |-> normalizePath(list[i])])

\* the list updateLocalesPaths(paths) writes
updatedLocalesPaths(paths) ==
  Arr(uniq(OrElse(localesPaths, Arr(<<>>)).val \o paths))

\* get ignoredLocales, of the value getConfig('ignoredLocales') returns
ignoredLocalesOf(ignored) ==
  IF ~Truthy(ignored) THEN <<>>
  ELSE IF ignored.kind = "string" THEN <<ignored.val>>
  ELSE IF ignored.kind = "array" THEN ignored.val
  ELSE <<>>

ignoredLocales == ignoredLocalesOf(getConfig("ignoredLocales"))

\* the list toggleLocaleVisibility(locale, visible) writes; visible is
\* "omitted", "true" or "false"
toggledIgnoredLocales(locale, visible) ==
  LET ignored == ignoredLocales
      vis == IF visible = "omitted" THEN ~includes(ignored, locale)
             ELSE visible = "true"
  IN IF ~vis THEN Arr(Append(ignored, locale))
     ELSE Arr(without(ignored, locale))

(***************************************************************************)
(* SpecUpdates: the read-modify-write updates of the two list settings     *)
(***************************************************************************)
InPaths == {<<"a">>, <<"a", "/">>, <<"b", "\\", "c">>}
PathArgs == UNION {[1..n -> InPaths] : n \in 1..MaxArgLen}
Locales == {"en", "fr"}
Visible == {"omitted", "true", "false"}

InitUpdates ==
  /\ \E cp \in {Undefined, Arr(<<>>), Str(<<"a", ",", "c", "\\">>)},
        ci \in {Undefined, Str("en")} :
       cur = [localesPaths |-> cp, ignoredLocales |-> ci]
  /\ \E lp \in {Undefined, Arr(<<<<"c">>>>)},
        li \in {Undefined, Arr(<<"fr">>)} :
       leg = [localesPaths |-> lp, ignoredLocales |-> li]
  /\ pending = <<>>
  /\ last = NoOp
  /\ hist = <<>>
  /\ idleTr /\ idleRv /\ idleI18n

Call(op, key, arg, visible) ==
  [op |-> op, key |-> key, arg |-> arg, visible |-> visible,
   pre |-> getConfig(key), quiet |-> pending = <<>>]

UpdateLocalesPaths(paths) ==
  /\ Len(pending) < MaxPending
  /\ Len(hist) < MaxCalls
  /\ pending' = Append(pending,
                       setConfigCall("localesPaths", updatedLocalesPaths(paths)))
  /\ hist' = Append(hist, Call("updateLocalesPaths", "localesPaths", Arr(paths), ""))
  /\ last' = [op |-> "call", key |-> "localesPaths", val |-> Arr(paths)]
  /\ UNCHANGED <<cur, leg, trVars, rvVars, i18nVars>>

ToggleLocaleVisibility(locale, visible) ==
  /\ Len(pending) < MaxPending
  /\ Len(hist) < MaxCalls
  /\ pending' = Append(pending,
                       setConfigCall("ignoredLocales",
                                     toggledIgnoredLocales(locale, visible)))
  /\ hist' = Append(hist, Call("toggleLocaleVisibility", "ignoredLocales",
                               Str(locale), visible))
  /\ last' = [op |-> "call", key |-> "ignoredLocales", val |-> Str(locale)]
  /\ UNCHANGED <<cur, leg, trVars, rvVars, i18nVars>>

NextUpdates ==
  \/ \E paths \in PathArgs : UpdateLocalesPaths(paths)
  \/ \E locale \in Locales, visible \in Visible :
       ToggleLocaleVisibility(locale, visible)
  \/ \E i \in 1..MaxPending : LegacyUpdateLands(i)
  \/ \E i \in 1..MaxPending : UpdateLands(i)

SpecUpdates == InitUpdates /\ [][NextUpdates]_vars

\* The last call, when it was made with no write pending and has completed.
LastCallAlone(op) ==
  /\ hist # <<>>
  /\ pending = <<>>
  /\ hist[Len(hist)].op = op
  /\ hist[Len(hist)].quiet

Elems(a) == {a[i] : i \in 1..Len(a)}
NoDuplicates(a) == \A i, j \in 1..Len(a) : a[i] = a[j] => i = j

\* The paths a stored localesPaths value lists, as they are written.
ConfiguredPaths(v) ==
  IF v.kind = "array" THEN Elems(v.val)
  ELSE IF v.kind = "string" /\ Len(v.val) > 0 THEN Elems(split(v.val, ","))
  ELSE {}

\* C4: after updateLocalesPaths calls that each completed, the stored
\* localesPaths list contains no path twice, contains every previously
\* configured path and every path passed in, and a call with paths already
\* present leaves the list unchanged.
C4_LocalesPathsSet ==
  LastCallAlone("updateLocalesPaths") =>
    LET c == hist[Len(hist)]
        stored == cur.localesPaths
    IN /\ stored.kind = "array"
       /\ NoDuplicates(stored.val)
       /\ ConfiguredPaths(c.pre) \subseteq Elems(stored.val)
       /\ Elems(c.arg.val) \subseteq Elems(stored.val)
       /\ (c.pre.kind = "array" /\ NoDuplicates(c.pre.val)
             /\ Elems(c.arg.val) \subseteq Elems(c.pre.val))
            => stored = c.pre

\* C6: toggleLocaleVisibility(locale) with visible omitted flips the
\* locale's membership of ignoredLocales, and two such calls in a row
\* restore it.
C6_ToggleFlips ==
  (LastCallAlone("toggleLocaleVisibility") /\ hist[Len(hist)].visible = "omitted") =>
    LET c == hist[Len(hist)]
    IN /\ includes(ignoredLocales, c.arg.val)
            <=> ~includes(ignoredLocalesOf(c.pre), c.arg.val)
       /\ (Len(hist) >= 2 /\ hist[Len(hist) - 1].quiet
             /\ hist[Len(hist) - 1].op = "toggleLocaleVisibility"
             /\ hist[Len(hist) - 1].visible = "omitted"
             /\ hist[Len(hist) - 1].arg = c.arg)
            => (includes(ignoredLocales, c.arg.val)
                  <=> includes(ignoredLocalesOf(hist[Len(hist) - 1].pre), c.arg.val))

\* The last two calls, when the second was made while the first was still
\* pending and both have completed.
LastTwoOverlapped ==
  /\ Len(hist) >= 2
  /\ pending = <<>>
  /\ hist[Len(hist) - 1].quiet
  /\ ~hist[Len(hist)].quiet

\* What one completed call asks of the stored lists; a path counts as
\* stored when the list holds it in any spelling of its separators.
Reflected(c) ==
  /\ c.op = "updateLocalesPaths" =>
       /\ localesPaths.kind = "array"
       /\ {normalizePath(p) : p \in Elems(c.arg.val)}
            \subseteq Elems(localesPaths.val)
  /\ (c.op = "toggleLocaleVisibility" /\ c.visible = "false") =>
       includes(ignoredLocales, c.arg.val)
  /\ (c.op = "toggleLocaleVisibility" /\ c.visible = "true") =>
       ~includes(ignoredLocales, c.arg.val)

\* C9: two updateLocalesPaths calls, or two toggleLocaleVisibility calls for
\* different locales, issued back to back: once both writes have completed
\* the stored list reflects both updates.
C9_NoLostUpdate ==
  LastTwoOverlapped =>
    LET c1 == hist[Len(hist) - 1]
        c2 == hist[Len(hist)]
    IN (c1.op = c2.op /\ (c1.op = "toggleLocaleVisibility" => c1.arg # c2.arg))
         => Reflected(c1) /\ Reflected(c2)

(***************************************************************************)
(* SpecTranslate: a translation batch dispatched with the concurrency      *)
(* bound Config.translateParallels                                         *)
(***************************************************************************)
DefaultParallels == 5

\* get translateParallels returning the default whatever is configured
translateParallelsFixed == Num(DefaultParallels)

\* get translateParallels
translateParallels == OrElse(getConfig("translate.parallels"), Num(DefaultParallels))

Jobs == 1..MaxJobs
InFlight == {j \in Jobs : jobs[j] = "inFlight"}

InitTranslate ==
  /\ \E c \in {Undefined, Num(0), Num(2), Num(3)} :
       cur = [t \in {"translate.parallels"} |-> c]
  /\ \E l \in {Undefined, Num(2)} :
       leg = [t \in {"translate.parallels"} |-> l]
  /\ pending = <<>>
  /\ last = NoOp
  /\ jobs = [j \in Jobs |-> "pending"]
  /\ idleHist /\ idleRv /\ idleI18n

\* pending -> inFlight, while fewer than translateParallels jobs are in flight
Admit(j) ==
  /\ jobs[j] = "pending"
  /\ Cardinality(InFlight) < translateParallels.val
  /\ jobs' = [jobs EXCEPT ![j] = "inFlight"]
  /\ UNCHANGED <<cfgVars, last, hist, rvVars, i18nVars>>

\* inFlight -> done
Complete(j) ==
  /\ jobs[j] = "inFlight"
  /\ jobs' = [jobs EXCEPT ![j] = "done"]
  /\ UNCHANGED <<cfgVars, last, hist, rvVars, i18nVars>>

\* inFlight -> failed
Fail(j) ==
  /\ jobs[j] = "inFlight"
  /\ jobs' = [jobs EXCEPT ![j] = "failed"]
  /\ UNCHANGED <<cfgVars, last, hist, rvVars, i18nVars>>

NextTranslate ==
  \/ \E j \in Jobs : Admit(j)
  \/ \E j \in Jobs : Complete(j)
  \/ \E j \in Jobs : Fail(j)

SpecTranslate == InitTranslate /\ [][NextTranslate]_vars

\* The configured translate.parallels, as the two namespaces give it.
ConfiguredParallels ==
  IF cur["translate.parallels"] # Undefined THEN cur["translate.parallels"]
  ELSE leg["translate.parallels"]

\* C5: at most N jobs are in flight, N the configured translate.parallels
\* and 5 when it is not configured; so with N jobs in flight no pending job
\* is admitted before one of them completes.
C5_BoundedInFlight ==
  /\ \A n \in 1..MaxJobs :
       ConfiguredParallels = Num(n) => Cardinality(InFlight) <= n
  /\ ConfiguredParallels = Undefined => Cardinality(InFlight) <= 5

\* translate.parallels = 2: two jobs in flight, one admitted after another
\* job completed, and jobs still pending.
C5_Witness ==
  /\ ConfiguredParallels = Num(2)
  /\ Cardinality(InFlight) = 2
  /\ \E j \in Jobs : jobs[j] = "done"
  /\ Cardinality({j \in Jobs : jobs[j] = "pending"}) >= 2

(***************************************************************************)
(* i18n.language, i18n.init and i18n.t                                     *)
(***************************************************************************)
\* c.toLocaleLowerCase(), on the letters that occur
lowerChar(c) ==
  CASE c = "C" -> "c" [] c = "N" -> "n" [] c = "U" -> "u" [] c = "S" -> "s"
    [] OTHER -> c

\* static language = env.language.toLocaleLowerCase()
language == [i \in 1..Len(envLanguage) |-> lowerChar(envLanguage[i])]

English == <<"e", "n">>
DefaultFile == <<"package.nls", ".json">>
LocaleFile(lang) == <<"package.nls", ".">> \o lang \o <<".json">>

\* fs.existsSync(path.join(extensionPath, name))
existsSync(name) == name \in DOMAIN files

\* the name init starts from, without the test that the file exists
messagesFileNoFallback ==
  IF language = English THEN DefaultFile ELSE LocaleFile(language)

\* the file init reads
messagesFile ==
  LET name == IF language = English THEN DefaultFile ELSE LocaleFile(language)
  IN IF ~existsSync(name) THEN DefaultFile ELSE name

\* i18n.t(key), without arguments
t(key) == IF key \in DOMAIN messages /\ Len(messages[key]) > 0
            THEN messages[key] ELSE <<>>

(***************************************************************************)
(* SpecI18n: loading the message table                                    *)
(***************************************************************************)
Languages == {<<"e", "n">>, <<"e", "n", "-", "U", "S">>,
              <<"z", "h", "-", "C", "N">>, <<"f", "r">>}
FileNames == {DefaultFile, LocaleFile(<<"e", "n">>), LocaleFile(<<"e", "n", "-", "u", "s">>),
              LocaleFile(<<"z", "h", "-", "c", "n">>),
              LocaleFile(<<"z", "h", "-", "C", "N">>)}
\* A file holds a JSON object, named by its table, or text JSON.parse rejects.
NoMessages == [k \in {} |-> <<>>]
TableA == [k \in {"review.unknown_user"} |-> <<"U">>]
TableB == [k \in {"review.unknown_user", "extname"} |-> <<>>]
Contents == {[json |-> TRUE, table |-> TableA], [json |-> TRUE, table |-> TableB],
             [json |-> FALSE, table |-> NoMessages]}

InitI18n ==
  /\ envLanguage \in Languages
  /\ \E present \in SUBSET FileNames : files \in [present -> Contents]
  /\ messages = NoMessages
  /\ last = NoOp
  /\ idleCfg /\ idleHist /\ idleTr /\ idleRv

\* i18n.init(extensionPath): readFileSync throws on a missing file and
\* JSON.parse on malformed text; messages is assigned only when both return.
I18nInit ==
  LET name == messagesFile
      ok == existsSync(name) /\ files[name].json
  IN /\ messages' = IF ok THEN files[name].table ELSE messages
     /\ last' = [op |-> "init", key |-> name,
                 val |-> IF ok THEN "returned" ELSE "threw"]
     /\ UNCHANGED <<cfgVars, hist, trVars, rvVars, envLanguage, files>>

NextI18n == I18nInit

SpecI18n == InitI18n /\ [][NextI18n]_vars

\* C8: init loads the messages from package.nls.<language>.json exactly when
\* the language is not 'en' and that file exists, and from package.nls.json
\* in every other case; a missing locale file alone neither leaves the
\* messages unloaded nor makes init fail.
C8_InitFallback ==
  last.op = "init" =>
    LET useLocale == language # English /\ LocaleFile(language) \in DOMAIN files
    IN /\ useLocale <=> last.key = LocaleFile(language)
       /\ ~useLocale <=> last.key = DefaultFile
       /\ (last.key \in DOMAIN files /\ files[last.key].json)
            => last.val = "returned" /\ messages = files[last.key].table
       /\ (language # English /\ LocaleFile(language) \notin DOMAIN files
             /\ DefaultFile \in DOMAIN files /\ files[DefaultFile].json)
            => last.val = "returned" /\ messages = files[DefaultFile].table

\* A language other than 'en' whose locale file is missing: init returned
\* with the messages of package.nls.json.
C8_Witness ==
  /\ last.op = "init"
  /\ language = <<"f", "r">>
  /\ LocaleFile(language) \notin DOMAIN files
  /\ last.key = DefaultFile
  /\ last.val = "returned"
  /\ messages = TableA

(***************************************************************************)
(* Config.reviewUserName and Config.reviewUserEmail                        *)
(***************************************************************************)
Whitespace == {" ", "\n"}

RECURSIVE trimStart(_)
trimStart(s) == IF Len(s) > 0 /\ s[1] \in Whitespace THEN trimStart(Tail(s)) ELSE s

\* s.trim()
trim(s) == trimStart(trimEnd(s, Whitespace))

\* One read of a git-derived field: config is the configured value, cache
\* the static cache, git what execSync does now ([ok, out]) and unknown the
\* value returned when execSync throws.  ran: the git command was run.
reviewRead(config, cache, git, unknown) ==
  IF Truthy(config)
    THEN [val |-> config, cache |-> cache, ran |-> FALSE]
  ELSE IF ~Truthy(cache)
    THEN IF git.ok
           THEN [val |-> Str(trim(git.out)), cache |-> Str(trim(git.out)), ran |-> TRUE]
           ELSE [val |-> unknown, cache |-> cache, ran |-> TRUE]
  ELSE [val |-> cache, cache |-> cache, ran |-> FALSE]

(***************************************************************************)
(* SpecReview: reads of the review identity while git's configuration may  *)
(* change                                                                  *)
(***************************************************************************)
GitOutcomes == {[ok |-> FALSE, out |-> <<>>], [ok |-> TRUE, out |-> <<"\n">>],
                [ok |-> TRUE, out |-> <<"a", "\n">>], [ok |-> TRUE, out |-> <<"b", "\n">>]}

InitReview ==
  /\ \E n \in {Undefined, Str(<<"c">>)}, e \in {Undefined, Str(<<"c", "@">>)} :
       cur = [k \in {"review.user.name", "review.user.email"} |->
                IF k = "review.user.name" THEN n ELSE e]
  /\ leg = [k \in {"review.user.name", "review.user.email"} |-> Undefined]
  /\ pending = <<>>
  /\ gitName \in GitOutcomes
  /\ gitEmail \in GitOutcomes
  /\ reviewUserNameCache = Undefined
  /\ reviewUserEmailCache = Undefined
  /\ gitRuns = [name |-> 0, email |-> 0]
  /\ hist = [name |-> Undefined, email |-> Undefined]
  /\ messages = TableA
  /\ envLanguage = <<>> /\ files = <<>>
  /\ last = NoOp
  /\ idleTr

\* The first result a git command gave without error, kept for the claims.
FirstResult(first, r, git) ==
  IF first = Undefined /\ r.ran /\ git.ok THEN r.val ELSE first

\* get reviewUserName
ReadReviewUserName ==
  LET r == reviewRead(getConfig("review.user.name"), reviewUserNameCache, gitName,
                      Str(t("review.unknown_user")))
  IN /\ r.ran => gitRuns.name < MaxGitRuns
     /\ reviewUserNameCache' = r.cache
     /\ gitRuns' = [gitRuns EXCEPT !.name = IF r.ran THEN @ + 1 ELSE @]
     /\ last' = [op |-> "reviewUserName", key |-> "review.user.name", val |-> r.val,
                 ran |-> r.ran, first |-> hist.name]
     /\ hist' = [hist EXCEPT !.name = FirstResult(@, r, gitName)]
     /\ UNCHANGED <<cfgVars, trVars, i18nVars, gitName, gitEmail, reviewUserEmailCache>>

\* get reviewUserEmail
ReadReviewUserEmail ==
  LET r == reviewRead(getConfig("review.user.email"), reviewUserEmailCache, gitEmail,
                      Str(<<>>))
  IN /\ r.ran => gitRuns.email < MaxGitRuns
     /\ reviewUserEmailCache' = r.cache
     /\ gitRuns' = [gitRuns EXCEPT !.email = IF r.ran THEN @ + 1 ELSE @]
     /\ last' = [op |-> "reviewUserEmail", key |-> "review.user.email", val |-> r.val,
                 ran |-> r.ran, first |-> hist.email]
     /\ hist' = [hist EXCEPT !.email = FirstResult(@, r, gitEmail)]
     /\ UNCHANGED <<cfgVars, trVars, i18nVars, gitName, gitEmail, reviewUserNameCache>>

\* The user changes git's user.name or user.email outside the program.
GitConfigChanges ==
  /\ \E n \in GitOutcomes, e \in GitOutcomes :
       /\ <<n, e>> # <<gitName, gitEmail>>
       /\ gitName' = n
       /\ gitEmail' = e
  /\ last' = NoOp
  /\ UNCHANGED <<cfgVars, hist, trVars, i18nVars, reviewUserNameCache,
                 reviewUserEmailCache, gitRuns>>

NextReview ==
  \/ ReadReviewUserName
  \/ ReadReviewUserEmail
  \/ GitConfigChanges

SpecReview == InitReview /\ [][NextReview]_vars

\* C7: with no configured review.user value, after the first read whose git
\* command ran without error, no later read runs the git command again and
\* every later read returns that first result.
C7_InitializedOnce ==
  (/\ last.op \in {"reviewUserName", "reviewUserEmail"}
   /\ ~Truthy(getConfig(last.key))
   /\ last.first # Undefined)
    => ~last.ran /\ last.val = last.first

====
